---- MODULE Spec2Model ----
(***************************************************************************)
(* Model of the two HTTP services of the repository.                       *)
(*                                                                         *)
(*  - server/main.py + server/local_pipelines.py: the mock upload service  *)
(*    (/generate_bg, /inpaint, /edit, /expand), specification SpecMock.    *)
(*  - server/simple_backend.py: the pipeline-backed service (startup hook, *)
(*    /health, /sdapi/v1/sd-models, /sdapi/v1/txt2img, /generate_bg),      *)
(*    specification Spec.                                                  *)
(*                                                                         *)
(* The diffusion pipeline is an external collaborator: whether a load, a   *)
(* device move, a pipeline call or a PNG encoding raises is chosen by the  *)
(* environment (\E in the actions).  Every handler of simple_backend.py is *)
(* an `async def` without a suspension point before its last statement, so *)
(* a request is one atomic step of the event loop.                         *)
(***************************************************************************)
EXTENDS Integers, Sequences, FiniteSets, TLC

VARIABLES
    cuda,        \* torch.cuda.is_available() of the host
    pc,          \* position of the startup hook / the service
    pipe,        \* simple_backend.pipe, the global pipeline handle
    startupErr,  \* the exception `e` the startup hook caught, None if none
    healthResp,  \* last answer of GET /health
    modelsResp,  \* last answer of GET /sdapi/v1/sd-models
    genReq,      \* last POST /sdapi/v1/txt2img or /generate_bg request
    genResp,     \* its answer, with the pipeline calls it made
    mockReq,     \* last request to the mock upload service
    mockResp     \* its answer

vars == <<cuda, pc, pipe, startupErr, healthResp, modelsResp, genReq, genResp, mockReq, mockResp>>

backendVars == <<cuda, pc, pipe, startupErr, healthResp, modelsResp, genReq, genResp>>
mockVars == <<mockReq, mockResp>>

-----------------------------------------------------------------------------
(* Bounds and program constants                                            *)

\* longest uploaded file, in bytes
MaxLen == 2

\* GenerateRequest defaults; guidance_scale is kept in tenths (7.5 -> 75)
DefaultWidth == 512
DefaultHeight == 512
DefaultSteps == 20
DefaultGuidanceTenths == 75

ByteVals == {0, 255}
Bytes == UNION {[1..n -> ByteVals] : n \in 0..MaxLen}

None == "None"

-----------------------------------------------------------------------------
(* server/local_pipelines.py: the mock generation functions                *)

turbo_generate_bg(image_bytes, prompt) == image_bytes

\* variant: the mask is returned instead of the image
turbo_inpaint_returns_mask(image_bytes, mask_bytes, prompt) == mask_bytes

turbo_inpaint(image_bytes, mask_bytes, prompt) == image_bytes

pix2pix_edit(image_bytes, mask_bytes, prompt) == image_bytes

gligen_expand(image_bytes, prompt) == image_bytes

-----------------------------------------------------------------------------
(* server/main.py: the upload router                                       *)

\* StreamingResponse(iter([png_bytes]), media_type="image/png")
StreamingResponse(png_bytes) ==
    [status |-> 200, chunks |-> <<png_bytes>>, media |-> "image/png"]

\* prompt: str = Form(""): an absent form field takes the default
FormPrompt(p) == IF p = None THEN "" ELSE p

MockPrompts == {"", "sky"}
NoMask == <<>>
NoMockReq == [endpoint |-> None, image |-> <<>>, mask |-> <<>>, hasMask |-> FALSE, prompt |-> None]
NoMockResp == [status |-> 0, chunks |-> <<>>, media |-> None]

generate_bg ==
    \E image \in Bytes, prompt \in MockPrompts \cup {None} :
        /\ mockReq' = [endpoint |-> "/generate_bg", image |-> image, mask |-> NoMask,
                       hasMask |-> FALSE, prompt |-> prompt]
        /\ mockResp' = StreamingResponse(turbo_generate_bg(image, FormPrompt(prompt)))
        /\ UNCHANGED backendVars

inpaint ==
    \E image \in Bytes, mask \in Bytes, prompt \in MockPrompts \cup {None} :
        /\ mockReq' = [endpoint |-> "/inpaint", image |-> image, mask |-> mask,
                       hasMask |-> TRUE, prompt |-> prompt]
        /\ mockResp' = StreamingResponse(turbo_inpaint(image, mask, FormPrompt(prompt)))
        /\ UNCHANGED backendVars

edit ==
    \E image \in Bytes, mask \in Bytes, prompt \in MockPrompts :
        /\ mockReq' = [endpoint |-> "/edit", image |-> image, mask |-> mask,
                       hasMask |-> TRUE, prompt |-> prompt]
        /\ mockResp' = StreamingResponse(pix2pix_edit(image, mask, prompt))
        /\ UNCHANGED backendVars

expand ==
    \E image \in Bytes, prompt \in MockPrompts :
        /\ mockReq' = [endpoint |-> "/expand", image |-> image, mask |-> NoMask,
                       hasMask |-> FALSE, prompt |-> prompt]
        /\ mockResp' = StreamingResponse(gligen_expand(image, prompt))
        /\ UNCHANGED backendVars

-----------------------------------------------------------------------------
(* server/simple_backend.py: state                                         *)

\* pipe = None (line 23)
NonePipe == [loaded |-> FALSE, dtype |-> None, device |-> None]

\* a JSON field of a request body: absent, null, a string or an integer
Field(kind, n, s) == [kind |-> kind, n |-> n, s |-> s]
AbsentField == Field("absent", 0, "")
NullField == Field("null", 0, "")
IntField(n) == Field("int", n, "")
StrField(s) == Field("str", 0, s)

PromptFields == {AbsentField, NullField, StrField("a cat")}
WidthFields == {AbsentField, IntField(256), StrField("wide")}
HeightFields == {AbsentField, IntField(768)}
StepsFields == {AbsentField, IntField(50)}
GuidanceFields == {AbsentField, IntField(90)}

\* a body that is not JSON at all
MalformedBody ==
    [json |-> FALSE, prompt |-> AbsentField, width |-> AbsentField, height |-> AbsentField,
     num_inference_steps |-> AbsentField, guidance_scale |-> AbsentField]

Bodies ==
    {MalformedBody} \cup
    [json : {TRUE}, prompt : PromptFields, width : WidthFields, height : HeightFields,
     num_inference_steps : StepsFields, guidance_scale : GuidanceFields]

\* what the external pipeline and the PNG encoder do on one request
Envs ==
    {[kind |-> "ok", msg |-> ""],
     [kind |-> "pipe_raises", msg |-> "CUDA out of memory"],
     [kind |-> "save_raises", msg |-> "cannot write mode F as PNG"]}

NoPng == [format |-> None, width |-> 0, height |-> 0]
NoHealth == [asked |-> FALSE, status |-> None, models |-> <<>>]
NoModels == [asked |-> FALSE, body |-> <<>>]
NoGenReq == [endpoint |-> None, body |-> MalformedBody, env |-> [kind |-> "ok", msg |-> ""]]
NoGenResp ==
    [asked |-> FALSE, status |-> 0, media |-> None, png |-> NoPng, detail |-> "", calls |-> <<>>]

-----------------------------------------------------------------------------
(* server/simple_backend.py: GenerateRequest                               *)

\* an int field: absent takes the default, an integer is kept, anything else
\* (null, a non-numeric string) is a validation error
IntOk(f) == f.kind \in {"absent", "int"}
IntOr(f, default) == IF f.kind = "absent" THEN default ELSE f.n

\* variant: prompt declared with a default (prompt: str = "")
GenerateRequest_prompt_optional(body) ==
    [ok |-> /\ body.json
            /\ body.prompt.kind \in {"absent", "str"}
            /\ IntOk(body.width)
            /\ IntOk(body.height)
            /\ IntOk(body.num_inference_steps)
            /\ IntOk(body.guidance_scale),
     prompt |-> body.prompt.s,
     width |-> IntOr(body.width, DefaultWidth),
     height |-> IntOr(body.height, DefaultHeight),
     num_inference_steps |-> IntOr(body.num_inference_steps, DefaultSteps),
     guidance_scale |-> IntOr(body.guidance_scale, DefaultGuidanceTenths)]

\* GenerateRequest(**body): ok is FALSE when the body is not JSON or a field
\* fails validation (prompt is required and must be a string)
GenerateRequest(body) ==
    [ok |-> /\ body.json
            /\ body.prompt.kind = "str"
            /\ IntOk(body.width)
            /\ IntOk(body.height)
            /\ IntOk(body.num_inference_steps)
            /\ IntOk(body.guidance_scale),
     prompt |-> body.prompt.s,
     width |-> IntOr(body.width, DefaultWidth),
     height |-> IntOr(body.height, DefaultHeight),
     num_inference_steps |-> IntOr(body.num_inference_steps, DefaultSteps),
     guidance_scale |-> IntOr(body.guidance_scale, DefaultGuidanceTenths)]

-----------------------------------------------------------------------------
(* server/simple_backend.py: startup hook                                  *)

\* torch_dtype=torch.float16 if torch.cuda.is_available() else torch.float32
from_pretrained(c) ==
    [loaded |-> TRUE, dtype |-> IF c THEN "float16" ELSE "float32", device |-> "unplaced"]

\* device = "cuda" if torch.cuda.is_available() else "cpu"; pipe.to(device)
to_device(p, c) == [p EXCEPT !.device = IF c THEN "cuda" ELSE "cpu"]

\* variant: the except branch does not reset the handle
startup_except_keeps_handle(p) == p

\* except Exception as e: ...; pipe = None
startup_except(p) == NonePipe

\* lines 40-46: the load either raises (except branch) or assigns pipe
startup_load ==
    /\ pc = "startup"
    /\ \E raises \in BOOLEAN :
        IF raises
        THEN /\ pipe' = startup_except(pipe)
             /\ startupErr' = "from_pretrained failed"
             /\ pc' = "serving"
        ELSE /\ pipe' = from_pretrained(cuda)
             /\ startupErr' = startupErr
             /\ pc' = "to_device"
    /\ UNCHANGED <<cuda, healthResp, modelsResp, genReq, genResp, mockVars>>

\* lines 48-55: the device move either raises (except branch) or assigns pipe
startup_to_device ==
    /\ pc = "to_device"
    /\ \E raises \in BOOLEAN :
        IF raises
        THEN /\ pipe' = startup_except(pipe)
             /\ startupErr' = "to(device) failed"
        ELSE /\ pipe' = to_device(pipe, cuda)
             /\ startupErr' = startupErr
    /\ pc' = "serving"
    /\ UNCHANGED <<cuda, healthResp, modelsResp, genReq, genResp, mockVars>>

-----------------------------------------------------------------------------
(* server/simple_backend.py: handlers                                      *)

HealthResponse(status, models) == [asked |-> TRUE, status |-> status, models |-> models]

\* variant: the status does not look at the handle
health_check_body_always_healthy(p) ==
    HealthResponse("healthy",
                   IF p # NonePipe THEN <<"stable-diffusion-v1-5">> ELSE <<>>)

health_check_body(p) ==
    HealthResponse(IF p # NonePipe THEN "healthy" ELSE "unhealthy",
                   IF p # NonePipe THEN <<"stable-diffusion-v1-5">> ELSE <<>>)

health_check ==
    /\ pc = "serving"
    /\ healthResp' = health_check_body(pipe)
    /\ UNCHANGED <<cuda, pc, pipe, startupErr, modelsResp, genReq, genResp, mockVars>>

\* variant: the list follows the handle, as /health does
get_models_body_from_handle(p) ==
    [asked |-> TRUE,
     body |-> IF p # NonePipe
              THEN <<[title |-> "stable-diffusion-v1-5", model_name |-> "stable-diffusion-v1-5"]>>
              ELSE <<>>]

get_models_body(p) ==
    [asked |-> TRUE,
     body |-> <<[title |-> "stable-diffusion-v1-5", model_name |-> "stable-diffusion-v1-5"]>>]

get_models ==
    /\ pc = "serving"
    /\ modelsResp' = get_models_body(pipe)
    /\ UNCHANGED <<cuda, pc, pipe, startupErr, healthResp, genReq, genResp, mockVars>>

HTTPException(status_code, detail, calls) ==
    [asked |-> TRUE, status |-> status_code, media |-> "application/json", png |-> NoPng,
     detail |-> detail, calls |-> calls]

\* str(e) of the exception the environment raises
str(e) == e.msg

\* variant: width and height passed in each other's place
pipe_args_swapped(request) ==
    [prompt |-> request.prompt,
     width |-> request.height,
     height |-> request.width,
     num_inference_steps |-> request.num_inference_steps,
     guidance_scale |-> request.guidance_scale]

\* the arguments of pipe(...), lines 80-86
pipe_args(request) ==
    [prompt |-> request.prompt,
     width |-> request.width,
     height |-> request.height,
     num_inference_steps |-> request.num_inference_steps,
     guidance_scale |-> request.guidance_scale]

\* pipe(...).images[0]: the external pipeline returns an image of the size asked
pipe_call(args) == [width |-> args.width, height |-> args.height]

\* image.save(img_byte_arr, format='PNG')
save_png(image) == [format |-> "PNG", width |-> image.width, height |-> image.height]

\* variant: the handle test sits inside the try block, so its HTTPException(503)
\* is caught by `except Exception` and re-raised as a 500
generate_image_guard_in_try(p, request, env) ==
    IF p = NonePipe
    THEN HTTPException(500, "503: Pipeline not loaded", <<>>)
    ELSE LET args == pipe_args(request) IN
         IF env.kind \in {"pipe_raises", "save_raises"}
         THEN HTTPException(500, str(env), <<args>>)
         ELSE [asked |-> TRUE, status |-> 200, media |-> "image/png",
               png |-> save_png(pipe_call(args)), detail |-> "", calls |-> <<args>>]

\* variant: the exception message is replaced by a fixed text
generate_image_generic_500(p, request, env) ==
    IF p = NonePipe
    THEN HTTPException(503, "Pipeline not loaded", <<>>)
    ELSE LET args == pipe_args(request) IN
         IF env.kind \in {"pipe_raises", "save_raises"}
         THEN HTTPException(500, "Internal Server Error", <<args>>)
         ELSE [asked |-> TRUE, status |-> 200, media |-> "image/png",
               png |-> save_png(pipe_call(args)), detail |-> "", calls |-> <<args>>]

\* generate_image(request), lines 71-97, with handle p and environment env
generate_image(p, request, env) ==
    IF p = NonePipe
    THEN HTTPException(503, "Pipeline not loaded", <<>>)
    ELSE LET args == pipe_args(request) IN
         IF env.kind = "pipe_raises"
         THEN HTTPException(500, str(env), <<args>>)
         ELSE IF env.kind = "save_raises"
         THEN HTTPException(500, str(env), <<args>>)
         ELSE [asked |-> TRUE, status |-> 200, media |-> "image/png",
               png |-> save_png(pipe_call(args)), detail |-> "", calls |-> <<args>>]

\* variant: the delegation is wrapped in its own try/except, which turns every
\* HTTPException of generate_image into a 500
generate_background_wrapped(p, request, env) ==
    LET r == generate_image(p, request, env) IN
    IF r.status = 200 THEN r ELSE HTTPException(500, r.detail, r.calls)

\* generate_background(request), lines 100-102
generate_background(p, request, env) == generate_image(p, request, env)

\* the framework's answer to a body that GenerateRequest rejects: the handler
\* is not entered
validation_error == HTTPException(422, "validation error", <<>>)

\* variant: a failed generation drops the handle (pipe = None in the except branch)
post_txt2img_resets_handle ==
    /\ pc = "serving"
    /\ \E body \in Bodies, env \in Envs :
        LET request == GenerateRequest(body) IN
        /\ genReq' = [endpoint |-> "/sdapi/v1/txt2img", body |-> body, env |-> env]
        /\ genResp' = IF request.ok THEN generate_image(pipe, request, env)
                      ELSE validation_error
        /\ pipe' = IF request.ok /\ pipe # NonePipe /\ env.kind # "ok" THEN NonePipe ELSE pipe
    /\ UNCHANGED <<cuda, pc, startupErr, healthResp, modelsResp, mockVars>>

\* POST /sdapi/v1/txt2img
post_txt2img ==
    /\ pc = "serving"
    /\ \E body \in Bodies, env \in Envs :
        LET request == GenerateRequest(body) IN
        /\ genReq' = [endpoint |-> "/sdapi/v1/txt2img", body |-> body, env |-> env]
        /\ genResp' = IF request.ok THEN generate_image(pipe, request, env)
                      ELSE validation_error
    /\ UNCHANGED <<cuda, pc, pipe, startupErr, healthResp, modelsResp, mockVars>>

\* POST /generate_bg
post_generate_bg ==
    /\ pc = "serving"
    /\ \E body \in Bodies, env \in Envs :
        LET request == GenerateRequest(body) IN
        /\ genReq' = [endpoint |-> "/generate_bg", body |-> body, env |-> env]
        /\ genResp' = IF request.ok THEN generate_background(pipe, request, env)
                      ELSE validation_error
    /\ UNCHANGED <<cuda, pc, pipe, startupErr, healthResp, modelsResp, mockVars>>

-----------------------------------------------------------------------------
(* Specifications                                                          *)

Init ==
    /\ cuda \in BOOLEAN
    /\ pc = "startup"
    /\ pipe = NonePipe
    /\ startupErr = None
    /\ healthResp = NoHealth
    /\ modelsResp = NoModels
    /\ genReq = NoGenReq
    /\ genResp = NoGenResp
    /\ mockReq = NoMockReq
    /\ mockResp = NoMockResp

Next ==
    \/ startup_load
    \/ startup_to_device
    \/ health_check
    \/ get_models
    \/ post_txt2img
    \/ post_generate_bg

Spec == Init /\ [][Next]_vars

MockNext ==
    \/ generate_bg
    \/ inpaint
    \/ edit
    \/ expand

SpecMock == Init /\ [][MockNext]_vars

-----------------------------------------------------------------------------
(* Vocabulary of the properties                                            *)

Txt2Img == "/sdapi/v1/txt2img"
GenerateBg == "/generate_bg"
ModelName == "stable-diffusion-v1-5"

\* a body that is JSON, has a string prompt and gives every other parameter
\* either not at all or as a number
WellFormedBody(body) ==
    /\ body.json
    /\ body.prompt.kind = "str"
    /\ \A f \in {body.width, body.height, body.num_inference_steps, body.guidance_scale} :
          f.kind \in {"absent", "int"}

\* a body with a valid prompt and nothing else
PromptOnlyBody(body) ==
    /\ body.json
    /\ body.prompt.kind = "str"
    /\ \A f \in {body.width, body.height, body.num_inference_steps, body.guidance_scale} :
          f.kind = "absent"

\* the value of a parameter the request gives, else the documented default
Given(f, documented) == IF f.kind = "int" THEN f.n ELSE documented

Loaded == pipe # NonePipe
GenerationRaises == genReq.env.kind \in {"pipe_raises", "save_raises"}

-----------------------------------------------------------------------------
(* Properties of the mock upload service (SpecMock)                        *)

\* C1: for each of /generate_bg, /inpaint, /edit and /expand, whatever the
\* image bytes, mask bytes and prompt, the response is a single chunk equal to
\* the uploaded image bytes, served as image/png.
C1_MockEchoesImage ==
    mockReq.endpoint # None =>
        /\ mockReq.endpoint \in {"/generate_bg", "/inpaint", "/edit", "/expand"}
        /\ Len(mockResp.chunks) = 1
        /\ mockResp.chunks[1] = mockReq.image
        /\ mockResp.media = "image/png"
        /\ mockResp.status = 200

\* an /inpaint request whose mask differs from its non-empty image, with a prompt
C1_Witness ==
    /\ mockReq.endpoint = "/inpaint"
    /\ mockReq.image # <<>>
    /\ mockReq.mask # mockReq.image
    /\ mockReq.prompt = "sky"
    /\ mockResp.chunks = <<mockReq.image>>

-----------------------------------------------------------------------------
(* Properties of the pipeline-backed service (Spec)                        *)

\* C2: with a null handle, a well-formed POST /sdapi/v1/txt2img is answered
\* 503 (not 500) and the pipeline is not invoked.
C2_NullHandleGives503 ==
    (genResp.asked /\ genReq.endpoint = Txt2Img /\ WellFormedBody(genReq.body) /\ ~Loaded) =>
        /\ genResp.status = 503
        /\ genResp.calls = <<>>

\* a well-formed request answered while the handle is null
C2_Witness ==
    /\ pc = "serving"
    /\ ~Loaded
    /\ genReq.endpoint = Txt2Img
    /\ WellFormedBody(genReq.body)
    /\ genResp.status = 503

\* C3: with a loaded handle, when the pipeline call or the PNG encoding raises
\* an exception with message m, POST /sdapi/v1/txt2img answers 500 with detail
\* exactly m, after exactly one pipeline call.
C3_GenerationErrorGives500 ==
    (genResp.asked /\ genReq.endpoint = Txt2Img /\ WellFormedBody(genReq.body)
        /\ Loaded /\ GenerationRaises) =>
        /\ genResp.status = 500
        /\ genResp.detail = genReq.env.msg
        /\ Len(genResp.calls) = 1

\* the PNG encoding raised after the pipeline call returned
C3_Witness ==
    /\ Loaded
    /\ genReq.endpoint = Txt2Img
    /\ WellFormedBody(genReq.body)
    /\ genReq.env.kind = "save_raises"
    /\ genResp.status = 500
    /\ genResp.detail = "cannot write mode F as PNG"

\* C4: GET /health answers "unhealthy" with an empty model list when the
\* handle is null and "healthy" with ["stable-diffusion-v1-5"] when it is not;
\* status and model list never disagree.
C4_HealthFollowsHandle ==
    healthResp.asked =>
        /\ ~Loaded => (healthResp.status = "unhealthy" /\ healthResp.models = <<>>)
        /\ Loaded => (healthResp.status = "healthy" /\ healthResp.models = <<ModelName>>)
        /\ (healthResp.status = "healthy") <=> (healthResp.models # <<>>)

\* /health asked after a failed device move
C4_Witness ==
    /\ healthResp.asked
    /\ ~Loaded
    /\ startupErr = "to(device) failed"
    /\ healthResp.status = "unhealthy"

\* C5: once startup has completed, no request changes the pipeline handle.
C5_HandleFrozenAfterStartup == [][pc = "serving" => pipe' = pipe]_vars

\* every endpoint has answered, the generation one with a failure, and the
\* handle is still loaded
C5_Witness ==
    /\ pc = "serving"
    /\ Loaded
    /\ healthResp.asked
    /\ modelsResp.asked
    /\ genResp.status = 500

\* C6: a POST /sdapi/v1/txt2img whose body is not JSON or fails validation
\* (prompt missing or null, a parameter that is not a number) gets a 4xx
\* answer, neither 503 nor 500, and the pipeline is not invoked, whatever the
\* handle.
C6_MalformedBodyRejected ==
    (genResp.asked /\ genReq.endpoint = Txt2Img /\ ~WellFormedBody(genReq.body)) =>
        /\ genResp.status >= 400
        /\ genResp.status < 500
        /\ genResp.calls = <<>>

\* a JSON body without prompt, sent to a loaded service
C6_Witness ==
    /\ Loaded
    /\ genReq.endpoint = Txt2Img
    /\ genReq.body.json
    /\ genReq.body.prompt.kind = "absent"
    /\ genReq.body.width.kind = "int"
    /\ genResp.asked

\* C7: with a loaded handle, a well-formed POST /sdapi/v1/txt2img makes exactly
\* one pipeline call, with the request's prompt and, for each parameter, the
\* given value or else the default (512, 512, 20, 7.5); when the call succeeds
\* the answer is an image/png PNG of the size asked, 512x512 for a prompt-only
\* request.
C7_DefaultsAndPassThrough ==
    (genResp.asked /\ genReq.endpoint = Txt2Img /\ WellFormedBody(genReq.body) /\ Loaded) =>
        /\ Len(genResp.calls) = 1
        /\ genResp.calls[1] =
              [prompt |-> genReq.body.prompt.s,
               width |-> Given(genReq.body.width, 512),
               height |-> Given(genReq.body.height, 512),
               num_inference_steps |-> Given(genReq.body.num_inference_steps, 20),
               guidance_scale |-> Given(genReq.body.guidance_scale, 75)]
        /\ ~GenerationRaises =>
              /\ genResp.status = 200
              /\ genResp.media = "image/png"
              /\ genResp.png =
                    [format |-> "PNG",
                     width |-> Given(genReq.body.width, 512),
                     height |-> Given(genReq.body.height, 512)]
        /\ (PromptOnlyBody(genReq.body) /\ ~GenerationRaises) =>
              genResp.png = [format |-> "PNG", width |-> 512, height |-> 512]

\* a prompt-only request answered with a 512x512 PNG
C7_Witness ==
    /\ Loaded
    /\ genReq.endpoint = Txt2Img
    /\ PromptOnlyBody(genReq.body)
    /\ genResp.status = 200
    /\ genResp.png = [format |-> "PNG", width |-> 512, height |-> 512]
    /\ Len(genResp.calls) = 1

\* C8: when the startup hook has finished, the handle is non-null exactly when
\* neither the load nor the device move raised; the unplaced pipeline assigned
\* after the load is never left in the handle, and the service is serving
\* whatever the hook caught.
C8_StartupLeavesNullOnFailure ==
    /\ pc \in {"startup", "to_device", "serving"}
    /\ startupErr # None => (pc = "serving" /\ pipe = NonePipe)
    /\ pc = "serving" =>
          /\ Loaded <=> startupErr = None
          /\ pipe.device # "unplaced"
          /\ Loaded => pipe.device = (IF cuda THEN "cuda" ELSE "cpu")

\* the load succeeded, the device move raised, and the service is serving
C8_Witness ==
    /\ pc = "serving"
    /\ startupErr = "to(device) failed"
    /\ pipe = NonePipe

\* C9: GET /sdapi/v1/sd-models answers the same one-entry list in every
\* state, whatever the handle.
C9_ModelListStatic ==
    modelsResp.asked =>
        modelsResp.body = <<[title |-> ModelName, model_name |-> ModelName]>>

\* the model is listed while the handle is null and /health lists nothing
C9_Witness ==
    /\ modelsResp.asked
    /\ ~Loaded
    /\ healthResp.asked
    /\ healthResp.models = <<>>
    /\ Len(modelsResp.body) = 1

\* C10: POST /generate_bg answers a well-formed request as POST
\* /sdapi/v1/txt2img does: 503 without a call when the handle is null, 500 with
\* the exception message when generation raises, otherwise the PNG of one
\* pipeline call with the same parameters; it adds no call of its own.
C10_GenerateBgSameAsTxt2Img ==
    (genResp.asked /\ genReq.endpoint = GenerateBg /\ WellFormedBody(genReq.body)) =>
        /\ genResp = generate_image(pipe, GenerateRequest(genReq.body), genReq.env)
        /\ ~Loaded => (genResp.status = 503 /\ genResp.calls = <<>>)
        /\ (Loaded /\ GenerationRaises) =>
              (genResp.status = 500 /\ genResp.detail = genReq.env.msg)
        /\ (Loaded /\ ~GenerationRaises) =>
              (genResp.status = 200 /\ genResp.png.format = "PNG")
        /\ Len(genResp.calls) <= 1

\* /generate_bg asked of a service whose handle is null
C10_Witness ==
    /\ genReq.endpoint = GenerateBg
    /\ WellFormedBody(genReq.body)
    /\ ~Loaded
    /\ genResp.status = 503

====
